---- MODULE Spec2Model ----
(***************************************************************************)
(* Model of the pending-to-committed changelog pipeline of                 *)
(* alpha_beta_command_center/JiraIssueCreation/process_changelog_to_jira.py *)
(* and of the JiraConnector calls it makes.                                 *)
(*                                                                         *)
(* Text is modelled as a sequence of one-character tokens:                 *)
(*   "n"  a newline            "-"  a dash                                 *)
(*   "M"  the literal "<!-- END TEMPLATE -->"                              *)
(*   "S"  the label "Draft Summary:"      "T"  the label "Type:"           *)
(*   "a", "b", "B", "x", "t", "#"  ordinary text                           *)
(* so that find, split, strip, join and endswith are computed as Python    *)
(* computes them.                                                          *)
(***************************************************************************)
EXTENDS Integers, Sequences, FiniteSets, TLC

\* ---------------------------------------------------------------- bounds
MaxEntries == 2
MaxRuns == 2
MaxFaults == 2
MaxEpics == 2            \* epics of a project in the tracker
MaxMatchResults == 2     \* largest request.max_results

\* ------------------------------------------------------- program constants
ENTRY_SEPARATOR == <<"-", "-", "-", "n">>
TEMPLATE_END_MARKER == <<"M">>
Whitespace == {"n"}
NoneText == <<>>
PlaceholderComment == <<"#", "n">>

\* ------------------------------------------------------------ str helpers
RECURSIVE Find(_, _, _)
\* str.find(pat, start): the leftmost index >= start where pat occurs; 0 when
\* there is none (indices are 1-based, Python's -1 is 0 here).
Find(s, pat, start) ==
    IF start + Len(pat) - 1 > Len(s) THEN 0
    ELSE IF SubSeq(s, start, start + Len(pat) - 1) = pat THEN start
    ELSE Find(s, pat, start + 1)

EndsWith(s, suf) ==
    /\ Len(suf) <= Len(s)
    /\ SubSeq(s, Len(s) - Len(suf) + 1, Len(s)) = suf

StartsWith(s, pre) ==
    /\ Len(pre) <= Len(s)
    /\ SubSeq(s, 1, Len(pre)) = pre

RECURSIVE LStrip(_)
LStrip(s) ==
    IF s # <<>> /\ Head(s) \in Whitespace THEN LStrip(Tail(s)) ELSE s

RECURSIVE RStrip(_)
RStrip(s) ==
    IF s # <<>> /\ s[Len(s)] \in Whitespace
    THEN RStrip(SubSeq(s, 1, Len(s) - 1)) ELSE s

Strip(s) == RStrip(LStrip(s))

RECURSIVE Split(_, _)
\* str.split(sep): the pieces between the leftmost non-overlapping matches.
Split(s, sep) ==
    LET i == Find(s, sep, 1) IN
    IF i = 0 THEN <<s>>
    ELSE <<SubSeq(s, 1, i - 1)>> \o Split(SubSeq(s, i + Len(sep), Len(s)), sep)

RECURSIVE Join(_, _)
Join(parts, sep) ==
    IF parts = <<>> THEN <<>>
    ELSE IF Len(parts) = 1 THEN parts[1]
    ELSE parts[1] \o sep \o Join(Tail(parts), sep)

RECURSIVE SelectNonEmptyStripped(_)
\* [entry.strip() for entry in parts if entry.strip()]
SelectNonEmptyStripped(parts) ==
    IF parts = <<>> THEN <<>>
    ELSE (IF Strip(Head(parts)) # <<>> THEN <<Strip(Head(parts))>> ELSE <<>>)
         \o SelectNonEmptyStripped(Tail(parts))

\* ----------------------------------------------------- Template Partition
RECURSIVE SkipNewlines(_, _)
\* while end < len(content) and content[end] == '\n': end += 1
SkipNewlines(content, i) ==
    IF i <= Len(content) /\ content[i] = "n" THEN SkipNewlines(content, i + 1)
    ELSE i

\* main, lines 451-469: the leading template block and the entry content.
TemplatePartition(content) ==
    LET m == Find(content, TEMPLATE_END_MARKER, 1)
        after == m + Len(TEMPLATE_END_MARKER)
        s == Find(content, ENTRY_SEPARATOR, after)
        e == SkipNewlines(content, after)
        raw == SubSeq(content, 1, e - 1)
    IN  IF m = 0
        THEN [template_section |-> <<>>, processed_content |-> content]
        ELSE IF s # 0
        THEN [template_section |-> SubSeq(content, 1, s + Len(ENTRY_SEPARATOR) - 1),
              processed_content |->
                  SubSeq(content, s + Len(ENTRY_SEPARATOR), Len(content))]
        ELSE [template_section |->
                  IF EndsWith(raw, <<"n">>) THEN raw ELSE raw \o <<"n">>,
              processed_content |-> SubSeq(content, e, Len(content))]

\* main, line 477
PendingEntryTexts(processed_content) ==
    SelectNonEmptyStripped(Split(processed_content, ENTRY_SEPARATOR))

\* ----------------------------------------------------------- Entry Parser
RECURSIVE SkipWhitespace(_, _)
SkipWhitespace(s, i) ==
    IF i <= Len(s) /\ s[i] \in Whitespace THEN SkipWhitespace(s, i + 1) ELSE i

RECURSIVE LineEnd(_, _)
\* the index of the last character that ".*" matches from i (no newline)
LineEnd(s, i) ==
    IF i <= Len(s) /\ s[i] # "n" THEN LineEnd(s, i + 1) ELSE i - 1

\* re.search(r"<label>\s*(.*)", text).group(1).strip(): the label's leftmost
\* occurrence, any whitespace after it (newlines included), then the rest of
\* that line.
LabelLine(text, label) ==
    LET i == Find(text, <<label>>, 1)
        j == SkipWhitespace(text, i + 1)
    IN  Strip(SubSeq(text, j, LineEnd(text, j)))

\* re.search(r"<label>\s*(.*)", text, re.DOTALL).group(1).strip()
LabelRest(text, label) ==
    LET i == Find(text, <<label>>, 1)
    IN  Strip(SubSeq(text, i + 1, Len(text)))

\* lines 100-109: from the description label to the acceptance label, or to
\* the end of the block when no acceptance label follows it.
DescriptionOf(text) ==
    LET i == Find(text, <<"D">>, 1)
        k == Find(text, <<"A">>, i + 1)
    IN  IF k # 0 THEN Strip(SubSeq(text, i + 1, k - 1))
        ELSE Strip(SubSeq(text, i + 1, Len(text)))

Has(text, label) == Find(text, <<label>>, 1) # 0

EmptyDict == [k \in {} |-> <<>>]

\* the dict that lines 83-114 build
ParsedFields(entry_text) ==
    LET keys == (IF Has(entry_text, "S") THEN {"draft_summary"} ELSE {})
                \cup (IF Has(entry_text, "T") THEN {"type"} ELSE {})
                \cup (IF Has(entry_text, "D") THEN {"description"} ELSE {})
                \cup (IF Has(entry_text, "A") THEN {"acceptance_criteria"} ELSE {})
    IN  [k \in keys |->
            CASE k = "draft_summary" -> LabelLine(entry_text, "S")
              [] k = "type" -> LabelLine(entry_text, "T")
              [] k = "description" -> DescriptionOf(entry_text)
              [] OTHER -> LabelRest(entry_text, "A")]

\* dict.get(key, default)
Get(data, key, default) == IF key \in DOMAIN data THEN data[key] ELSE default

\* parse_pending_entry, lines 78-120
parse_pending_entry(entry_text) ==
    LET data == ParsedFields(entry_text)
    IN  IF Get(data, "draft_summary", <<>>) = <<>> THEN EmptyDict ELSE data

\* str.capitalize() on the words the model uses for a type
Capitalize(w) ==
    CASE w = <<"bug">> -> <<"Bug">>
      [] w = <<"story">> -> <<"Story">>
      [] OTHER -> w

\* process_single_entry, lines 141-145
IssueType(entry_data) ==
    LET t == Capitalize(Get(entry_data, "type", <<"Story">>))
    IN  IF t \in {<<"Story">>, <<"Bug">>} THEN t ELSE <<"Story">>

FinalSummary(entry_data) == Get(entry_data, "draft_summary", <<"No summary provided">>)
FinalDescription(entry_data) == Get(entry_data, "description", <<"Description to be added.">>)
FinalAc(entry_data) == Get(entry_data, "acceptance_criteria", <<"- Acceptance criteria to be added.">>)

\* process_single_entry, lines 345-356: the committed entry string
CommittedEntryStr(entry_data, epic_name, epic_key, issue_key, status) ==
    <<"## Epic: ", epic_name, "[", (IF epic_key # "None" THEN epic_key ELSE "N/A"), "]", "n", "n",
      "### ">> \o IssueType(entry_data) \o <<": ", issue_key, " - ">>
    \o FinalSummary(entry_data) \o <<"(Status: ", status, ")", "n", "n", "**Description:**", "n">>
    \o FinalDescription(entry_data) \o <<"n", "n", "## Acceptance Criteria", "n">>
    \o FinalAc(entry_data) \o <<"n">> \o ENTRY_SEPARATOR

\* -------------------------------------------------------------- Log Writer
RECURSIVE Concat(_)
Concat(chunks) ==
    IF chunks = <<>> THEN <<>> ELSE Head(chunks) \o Concat(Tail(chunks))

\* main, lines 583-595: the template written when nothing at all is left
FreshTemplate ==
    <<"t", "n">> \o ENTRY_SEPARATOR
    \o <<"n", "t", "S", "a", "n", "t", "T", "Story", "n", "t", "D", "n", "t", "n",
         "t", "A", "n", "t", "n">>
    \o ENTRY_SEPARATOR \o <<"M", "n">>

RECURSIVE RemainingFrom(_, _, _)
RemainingFrom(pending, processed, i) ==
    IF i > Len(pending) THEN <<>>
    ELSE (IF i <= Len(processed) /\ processed[i] = NoneText THEN <<pending[i]>>
          ELSE IF i > Len(processed) THEN <<pending[i]>>
          ELSE <<>>)
         \o RemainingFrom(pending, processed, i + 1)

\* the entries whose text is not among the processed texts, matched by text
RemainingByText(pending, processed) ==
    SelectSeq(pending, LAMBDA e : \A k \in 1..Len(processed) : processed[k] # e)

\* main, lines 550-561: the entries whose slot is None, matched by position
RemainingPendingTexts(pending, processed) == RemainingFrom(pending, processed, 1)

\* main, lines 563-596: the successive f.write calls of the first rewrite
PendingWrite1Chunks(template, remaining) ==
    (IF template # <<>>
     THEN <<template>>
          \o (IF /\ remaining # <<>>
                 /\ ~EndsWith(Strip(template), <<"n">>)
                 /\ ~EndsWith(Strip(template), Strip(ENTRY_SEPARATOR))
                 /\ ~EndsWith(template, <<"n">>)
              THEN << <<"n">> >> ELSE <<>>)
     ELSE <<>>)
    \o (IF remaining # <<>>
        THEN LET full == Join(remaining, ENTRY_SEPARATOR)
             IN  << IF EndsWith(full, ENTRY_SEPARATOR) THEN full
                    ELSE full \o ENTRY_SEPARATOR >>
        ELSE IF template = <<>> THEN <<FreshTemplate>>
        ELSE <<>>)

\* the second rewrite with the template left out when no entry remains
PendingWrite2DropsTemplate(template, remaining) ==
    (IF remaining # <<>> THEN <<template>> ELSE <<>>)
    \o (IF remaining # <<>>
        THEN LET joined == Join(remaining, ENTRY_SEPARATOR)
             IN  <<joined>>
                 \o (IF /\ Len(template) + Len(joined) # Len(template)
                        /\ ~EndsWith(joined, Strip(ENTRY_SEPARATOR))
                     THEN <<ENTRY_SEPARATOR>> ELSE <<>>)
        ELSE <<PlaceholderComment>>)

\* main, lines 616-656: the successive f_pending.write calls of the second rewrite
PendingWrite2Chunks(template, remaining) ==
    <<template>>
    \o (IF remaining # <<>>
        THEN LET joined == Join(remaining, ENTRY_SEPARATOR)
             IN  <<joined>>
                 \o (IF /\ Len(template) + Len(joined) # Len(template)
                        /\ ~EndsWith(joined, Strip(ENTRY_SEPARATOR))
                     THEN <<ENTRY_SEPARATOR>> ELSE <<>>)
        ELSE IF Strip(template) # <<>>
        THEN (IF ~EndsWith(template, <<"n">>) THEN << <<"n">> >> ELSE <<>>)
             \o <<PlaceholderComment>>
        ELSE <<PlaceholderComment>>)

\* what a write that stops early leaves in the file: the file is truncated on
\* open, then holds the chunks written so far
PartialWrites(chunks) ==
    { Concat(SubSeq(chunks, 1, k)) : k \in 0..(Len(chunks) - 1) }

\* main, lines 542-544: each committed entry string and a newline
RECURSIVE CommittedAppendText(_)
CommittedAppendText(entries) ==
    IF entries = <<>> THEN <<>>
    ELSE Head(entries) \o <<"n">> \o CommittedAppendText(Tail(entries))

\* ------------------------------------------------------------------ state
VARIABLES
    pendingFile,                    \* the pending log on disk
    committedFile,                  \* the committed log on disk
    committedExists,                \* whether the committed log exists
    pc,                             \* position of main / process_single_entry
    run,                            \* number of the current run
    stdin_open,                     \* FALSE once input() has raised EOFError
    template_section,
    pending_entry_texts,
    processed_successfully_texts,
    all_committed_entries_text,
    idx,                            \* position of the for loop of line 513
    epics,
    available_versions,
    selected_epic_key,
    selected_epic_name,
    new_epic_name,
    new_issue_key,
    trail,                          \* tracker results met while the current entry
                                    \* is processed, see TrailEvents
    preRunPending,                  \* the pending log when the run started
    preRunCommitted,                \* the committed log when the run started
    log,                            \* <<entry index, event>> of the current run
    created,                        \* title -> number of issues the tracker created
    failedWrites,                   \* "committed": the append of this run raised,
                                    \* "pending": its last rewrite raised
    faults,                         \* file errors and kills so far, all runs
    origPending,                    \* the pending log before the first run
    killed,                         \* a run was killed in the middle of a rewrite
    \* ---- the match-epics endpoint of roia-suite/backend/app/routers/jira.py
    endpoint_pc,                    \* where the request handler stands
    project_key,                    \* the query parameter
    max_results,                    \* request.max_results
    jira_service,                   \* the injected service: JiraService, or the
                                    \* MagicMock of the tests
    tracker,                        \* the Jira server: reachable or not, its epics
    matching_epics,                 \* what find_matching_epics gave
    all_epics,                      \* what the handler's get_epics call gave
    response,                       \* the HTTP response
    calls,                          \* <<method, project key>> calls on the service
    \* ---- one function looked at on its own
    applied                         \* [f, in, out]: the function, its arguments
                                    \* and, once it has been applied, its result

disk == <<pendingFile, committedFile, committedExists>>
snap == <<preRunPending, preRunCommitted, origPending>>
read == <<template_section, pending_entry_texts>>
results == <<processed_successfully_texts, all_committed_entries_text>>
locals == <<epics, available_versions, selected_epic_key, selected_epic_name,
            new_epic_name, new_issue_key, trail>>
vars == <<pendingFile, committedFile, committedExists, pc, run, stdin_open,
          template_section, pending_entry_texts, processed_successfully_texts,
          all_committed_entries_text, idx, epics, available_versions,
          selected_epic_key, selected_epic_name, new_epic_name, new_issue_key,
          trail, preRunPending, preRunCommitted, log, created, failedWrites, faults,
          origPending, killed, endpoint_pc, project_key, max_results,
          jira_service, tracker, matching_epics, all_epics, response, calls,
          applied>>
endpoint == <<endpoint_pc, project_key, max_results, jira_service, tracker,
              matching_epics, all_epics, response, calls>>

\* ----------------------------------------------------------- initial files
Blocks ==
    { <<"n", "S", "a", "n">>,                    \* a Story titled a
      <<"S", "b", "n", "T", "bug", "n">>,        \* a Bug titled b
      <<"x", "n">> }                             \* no title label

Templates ==
    { <<>>,
      <<"t", "n", "M", "n">> \o ENTRY_SEPARATOR,
      <<"t", "n", "M", "n">> }

RECURSIVE BlockSeqs(_)
BlockSeqs(k) ==
    IF k = 0 THEN { <<>> }
    ELSE { <<b>> \o r : b \in Blocks, r \in BlockSeqs(k - 1) }

\* a file whose closing separator line has no newline after it
UnterminatedBodies == { <<"S", "a", "n", "-", "-", "-">> }

\* every body ends with a separator, or is one block that runs to the end of
\* the file
Bodies ==
    { <<>> } \cup Blocks \cup UnterminatedBodies \cup
    { Join(bs, ENTRY_SEPARATOR) \o ENTRY_SEPARATOR :
          bs \in UNION { BlockSeqs(k) : k \in 1..MaxEntries } }

InitialPendingLogs == { t \o b : t \in Templates, b \in Bodies }

OldCommittedText == <<"old record", "n">> \o ENTRY_SEPARATOR \o <<"n">>

\* no function is looked at on its own
NoCall == [f |-> "none", in |-> <<>>, out |-> <<>>]

\* no request is being served
NoValue == "None"
NoTracker == [state |-> "unused", epics |-> <<>>]
NoResult == [kind |-> "none", value |-> <<>>]
NoResponse == [status |-> 0, body |-> <<>>]
EndpointIdle ==
    /\ endpoint_pc = "idle"
    /\ project_key = NoValue
    /\ max_results = 0
    /\ jira_service = NoValue
    /\ tracker = NoTracker
    /\ matching_epics = NoResult
    /\ all_epics = NoResult
    /\ response = NoResponse
    /\ calls = <<>>

Init ==
    /\ pendingFile \in InitialPendingLogs
    /\ committedExists \in BOOLEAN
    /\ committedFile = IF committedExists THEN OldCommittedText ELSE <<>>
    /\ pc = "start"
    /\ run = 1
    /\ stdin_open = TRUE
    /\ template_section = <<>>
    /\ pending_entry_texts = <<>>
    /\ processed_successfully_texts = <<>>
    /\ all_committed_entries_text = <<>>
    /\ idx = 0
    /\ epics = <<>>
    /\ available_versions = <<>>
    /\ selected_epic_key = "None"
    /\ selected_epic_name = "N/A"
    /\ new_epic_name = ""
    /\ new_issue_key = "None"
    /\ trail = {}
    /\ preRunPending = pendingFile
    /\ preRunCommitted = [exists |-> committedExists, text |-> committedFile]
    /\ log = {}
    /\ created = [t \in {} |-> 0]
    /\ failedWrites = {}
    /\ faults = 0
    /\ origPending = pendingFile
    /\ killed = FALSE
    /\ EndpointIdle
    /\ applied = NoCall

\* ------------------------------------------------------- operator, tracker
EOF == "<EOF>"

\* what input() can give: any of the answers, or EOFError once and for all
Responses(answers) == IF stdin_open THEN answers \cup {EOF} ELSE {EOF}

Lower(w) ==
    CASE w = "YES" -> "yes" [] w = "N" -> "n" [] w = "NONE" -> "none"
      [] w = "X" -> "x" [] w = "A" -> "a" [] w = "B" -> "b"
      [] w = "D" -> "d" [] w = "O" -> "o" [] w = "E" -> "e" [] w = "U" -> "u"
      [] OTHER -> w

Upper(w) ==
    CASE w = "yes" -> "YES" [] w = "n" -> "N" [] w = "none" -> "NONE"
      [] w = "x" -> "X" [] w = "a" -> "A" [] w = "b" -> "B"
      [] w = "d" -> "D" [] w = "o" -> "O" [] w = "e" -> "E" [] w = "u" -> "U"
      [] OTHER -> w

\* get_user_input, lines 63-76, with a default value
get_user_input(user_response, default_value) ==
    IF Lower(user_response) = "confirm" THEN default_value
    ELSE IF user_response # "" THEN user_response ELSE default_value

IsInt(w) == w \in {"0", "1", "2"}
IntOf(w) == CASE w = "0" -> 0 [] w = "1" -> 1 [] OTHER -> 2

YesNoInputs == {"", "yes", "no"}
ConfirmInputs == {"", "yes", "YES", "confirm", "skip", "no"}
EpicChoiceInputs == {"", "n", "none", "0", "1", "2", "x"}
NameInputs == {"", "New epic"}
VersionInputs == {"", "none", "1", "2", "1,2", "x"}

\* version_selection_str.split(',') on the answers the model uses
CommaSplit(w) == IF w = "1,2" THEN <<"1", "2">> ELSE <<w>>

EpicLists == { <<>>, << [key |-> "EPIC-1", summary |-> "Epic one"] >> }
VersionLists == { <<>>, << [id |-> "10001", name |-> "Version 1.0"] >> }

UpperText(t) == [i \in 1..Len(t) |-> Upper(t[i])]
LowerText(t) == [i \in 1..Len(t) |-> Lower(t[i])]

\* the issues the tracker can hold under an epic when an entry titled t is
\* processed
IssueLists(t) ==
    { <<>>,
      << [key |-> "ROIA-0", summary |-> <<"other">>, issuetype |-> "Story"] >>,
      << [key |-> "ROIA-0", summary |-> UpperText(t), issuetype |-> "Story"] >>,
      << [key |-> "ROIA-0", summary |-> UpperText(t), issuetype |-> "Bug"] >> }

\* JiraConnector.get_stories_in_epic, lines 251-275: the search asks for
\* issuetype = Story; an exception is logged and the empty list is returned
get_stories_in_epic(ok, issues) ==
    IF ~ok THEN <<>>
    ELSE LET stories == SelectSeq(issues, LAMBDA s : s.issuetype = "Story")
         IN  [i \in 1..Len(stories) |->
                  [key |-> stories[i].key, summary |-> stories[i].summary]]

\* what was typed at the confirmation prompt of line 155
ConfirmAnswers ==
    {"answered_default", "answered_yes", "answered_confirm", "answered_other"}
AnswerEvent(r) ==
    IF r = "" THEN "answered_default"
    ELSE IF Lower(r) = "yes" THEN "answered_yes"
    ELSE IF Lower(r) = "confirm" THEN "answered_confirm"
    ELSE "answered_other"

\* JiraConnector.create_jira_issue, lines 277-295: the 'issuetype' field of
\* the issue is built from the parameter issue_type, whose default the
\* caller of line 318 leaves in place; issue_type_name is used in log
\* messages only
create_jira_issue_type(issue_type_name, issue_type) == issue_type
CreatedAs(t) == IF t = <<"Bug">> THEN "issuetype_Bug" ELSE "issuetype_Story"

ChoiceEvent(n) ==
    CASE n = 0 -> "choice_0" [] n = 1 -> "choice_1" [] OTHER -> "choice_2"
ChoiceEvents == { ChoiceEvent(n) : n \in 0..2 }

\* what trail can hold
TrailEvents ==
    { "epics_failed",           \* get_project_epics caught an exception
      "versions_failed",        \* get_project_versions caught an exception
      "epic_create_failed",     \* create_jira_epic returned None
      "issues_failed",          \* get_stories_in_epic caught an exception
      "same_title",             \* the tracker holds, under the selected epic, an
                                \* issue with the entry's title, case ignored
      "dup_prompt",             \* the question of line 299 was asked
      "dup_yes",                \* and answered yes
      "dupfail_yes",            \* the question of line 307 was answered yes
      "epicfail_yes" }          \* the question of line 281 was answered yes
    \cup { CreatedAs(t) : t \in {<<"Story">>, <<"Bug">>} }
                                \* the issue type the tracker was given
    \cup ChoiceEvents           \* the number typed at the prompt of line 176
                                \* with which an epic was selected
    \cup ConfirmAnswers         \* the answer to the question of line 155, kept
                                \* until the first tracker call of the entry

\* names of transitions and of statuses, letter by letter
NameOpen == <<"O", "p", "e", "n">>
NameDone == <<"D", "o", "n", "e">>
NameDONE == <<"D", "O", "N", "E">>
NameUndone == <<"U", "n", "d", "o", "n", "e">>
NameDo == <<"D", "o">>

TransitionLists ==
    { <<>>,
      << [id |-> "11", name |-> NameOpen] >>,
      << [id |-> "11", name |-> NameOpen], [id |-> "31", name |-> NameUndone] >> }

\* target_status_name.lower() in t['name'].lower(), for the target "Done"
NameContainsDone(name) == Find(LowerText(name), LowerText(NameDone), 1) # 0

RECURSIVE LastMatch(_)
\* the id of the last matching transition
LastMatch(transitions) ==
    IF transitions = <<>> THEN "None"
    ELSE IF NameContainsDone(transitions[Len(transitions)].name)
         THEN transitions[Len(transitions)].id
    ELSE LastMatch(SubSeq(transitions, 1, Len(transitions) - 1))

RECURSIVE FirstMatch(_)
\* jira_connector.py lines 433-439: the id of the first matching transition
FirstMatch(transitions) ==
    IF transitions = <<>> THEN "None"
    ELSE IF NameContainsDone(Head(transitions).name) THEN Head(transitions).id
    ELSE FirstMatch(Tail(transitions))

\* JiraConnector.transition_jira_issue, lines 415-452
transition_jira_issue(listed, transitions, executed) ==
    /\ listed
    /\ FirstMatch(transitions) # "None"
    /\ executed

\* jira_connector.py lines 441-443: the ids client.transition_issue is called
\* with, in order
transitions_executed(listed, transitions) ==
    IF listed /\ FirstMatch(transitions) # "None"
    THEN <<FirstMatch(transitions)>>
    ELSE <<>>

\* process_single_entry, lines 335-343: the status written in the record
target_final_status == "Done"
current_story_status_for_changelog(transition_success) ==
    IF transition_success THEN target_final_status ELSE "Open"

RECURSIVE SumCounts(_, _)
SumCounts(c, S) ==
    IF S = {} THEN 0
    ELSE LET x == CHOOSE y \in S : TRUE IN c[x] + SumCounts(c, S \ {x})

\* the number of issues the tracker has created so far
TotalCreated == SumCounts(created, DOMAIN created)

AddCreated(c, t) ==
    IF t \in DOMAIN c THEN [c EXCEPT ![t] = @ + 1]
    ELSE [x \in DOMAIN c \cup {t} |-> IF x = t THEN 1 ELSE c[x]]

\* ------------------------------------------------------------ main, start
\* main, lines 435-483: read the pending log, set the template aside, split
ReadPending ==
    /\ pc = "start"
    /\ LET p == TemplatePartition(pendingFile)
           texts == PendingEntryTexts(p.processed_content)
       IN  /\ template_section' = p.template_section
           /\ pending_entry_texts' = texts
           /\ pc' = IF texts = <<>> THEN "exit" ELSE "init_conn"
    /\ UNCHANGED <<disk, snap, results, locals, run, stdin_open, idx, log,
                   created, failedWrites, faults, killed>>
    /\ UNCHANGED <<endpoint, applied>>

\* main, lines 485-502, and JiraConnector.__init__, lines 47-56
InitConnectorClearsPending ==
    /\ pc = "init_conn"
    /\ \E api_token_set \in BOOLEAN :
           /\ pc' = IF api_token_set THEN "username" ELSE "exit"
           /\ pendingFile' = IF api_token_set THEN pendingFile ELSE template_section
    /\ UNCHANGED <<committedFile, committedExists, snap, read, results, locals, run,
                   stdin_open, idx, log, created, failedWrites, faults, killed>>
    /\ UNCHANGED <<endpoint, applied>>

InitConnector ==
    /\ pc = "init_conn"
    /\ \E api_token_set \in BOOLEAN :
           pc' = IF api_token_set THEN "username" ELSE "exit"
    /\ UNCHANGED <<disk, snap, read, results, locals, run, stdin_open, idx, log,
                   created, failedWrites, faults, killed>>
    /\ UNCHANGED <<endpoint, applied>>

\* an EOFError handled like the end of the loop: the logs are written
AbortWritesLogs ==
    /\ pc' = "write_committed"
    /\ stdin_open' = FALSE
    /\ UNCHANGED <<disk, snap, read, results, locals, run, idx, log, created,
                   failedWrites, faults, killed>>

\* an EOFError that nothing catches ends the process: no file is written
AbortRun ==
    /\ pc' = "aborted"
    /\ stdin_open' = FALSE
    /\ UNCHANGED <<disk, snap, read, results, locals, run, idx, log, created,
                   failedWrites, faults, killed>>

\* an EOFError raised inside a try block whose handler prompts again
CaughtEOF(handler) ==
    /\ pc' = handler
    /\ stdin_open' = FALSE
    /\ UNCHANGED <<disk, snap, read, results, locals, run, idx, log, created,
                   failedWrites, faults, killed>>

Goto(next) ==
    /\ pc' = next
    /\ UNCHANGED <<disk, snap, read, results, locals, run, stdin_open, idx, log,
                   created, failedWrites, faults, killed>>

GotoNoting(next, events) ==
    /\ pc' = next
    /\ trail' = trail \cup events
    /\ UNCHANGED <<disk, snap, read, results, epics, available_versions,
                   selected_epic_key, selected_epic_name, new_epic_name,
                   new_issue_key, run, stdin_open, idx, log, created,
                   failedWrites, faults, killed>>

\* main, line 507
AskUsername ==
    /\ pc = "username"
    /\ \E r \in Responses({"", "jdoe"}) :
           IF r = EOF THEN AbortRun ELSE Goto("loop")
    /\ UNCHANGED <<endpoint, applied>>

\* ----------------------------------------------------- main, the for loop
EntryText == pending_entry_texts[idx]
EntryData == parse_pending_entry(EntryText)

ResetLocals ==
    /\ epics' = <<>>
    /\ available_versions' = <<>>
    /\ selected_epic_key' = "None"
    /\ selected_epic_name' = "N/A"
    /\ new_epic_name' = ""
    /\ new_issue_key' = "None"
    /\ trail' = {}

\* main, lines 530-536: process_single_entry returned (False, ...)
RetainEntry(event) ==
    /\ processed_successfully_texts' = Append(processed_successfully_texts, NoneText)
    /\ log' = log \cup {<<idx, event>>}
    /\ pc' = "loop"
    /\ ResetLocals
    /\ UNCHANGED <<disk, snap, read, all_committed_entries_text, run, stdin_open,
                   idx, created, failedWrites, faults, killed>>

\* the loop without the check of line 519: every block is processed
BeginAnyEntry ==
    /\ pc = "loop"
    /\ idx < Len(pending_entry_texts)
    /\ idx' = idx + 1
    /\ pc' = "confirm"
    /\ UNCHANGED <<disk, snap, read, results, locals, run, stdin_open, log,
                   created, failedWrites, faults, killed>>
    /\ UNCHANGED <<endpoint, applied>>

\* main, lines 513-522: a block that does not parse keeps its place
SkipUnparsed ==
    /\ pc = "loop"
    /\ idx < Len(pending_entry_texts)
    /\ parse_pending_entry(pending_entry_texts[idx + 1]) = EmptyDict
    /\ idx' = idx + 1
    /\ processed_successfully_texts' = Append(processed_successfully_texts, NoneText)
    /\ log' = log \cup {<<idx + 1, "unparsed">>}
    /\ UNCHANGED <<disk, snap, read, all_committed_entries_text, locals, pc, run,
                   stdin_open, created, failedWrites, faults, killed>>
    /\ UNCHANGED <<endpoint, applied>>

\* main, lines 513-524, and process_single_entry, lines 129-152
BeginEntry ==
    /\ pc = "loop"
    /\ idx < Len(pending_entry_texts)
    /\ parse_pending_entry(pending_entry_texts[idx + 1]) # EmptyDict
    /\ idx' = idx + 1
    /\ pc' = "confirm"
    /\ UNCHANGED <<disk, snap, read, results, locals, run, stdin_open, log,
                   created, failedWrites, faults, killed>>
    /\ UNCHANGED <<endpoint, applied>>

\* main, line 513: the loop is over
FinishLoop ==
    /\ pc = "loop"
    /\ idx = Len(pending_entry_texts)
    /\ Goto("write_committed")
    /\ UNCHANGED <<endpoint, applied>>

\* ------------------------------------------------- process_single_entry
\* the check of line 159 left out: only "skip" keeps the entry back
ConfirmOnlySkipRetains ==
    /\ pc = "confirm"
    /\ \E r \in Responses(ConfirmInputs) :
           IF r = EOF THEN AbortRun
           ELSE LET proceed_with_creation == Lower(get_user_input(r, "yes"))
                IN  IF proceed_with_creation = "skip"
                    THEN RetainEntry("declined")
                    ELSE GotoNoting("list_epics", {AnswerEvent(r)})
    /\ UNCHANGED <<endpoint, applied>>

\* lines 154-161
Confirm ==
    /\ pc = "confirm"
    /\ \E r \in Responses(ConfirmInputs) :
           IF r = EOF THEN AbortRun
           ELSE LET proceed_with_creation == Lower(get_user_input(r, "yes"))
                IN  IF proceed_with_creation = "skip" \/ proceed_with_creation # "yes"
                    THEN RetainEntry("declined")
                    ELSE GotoNoting("list_epics", {AnswerEvent(r)})
    /\ UNCHANGED <<endpoint, applied>>

\* lines 166-169 and 256-257, and JiraConnector.get_project_epics, lines
\* 229-249, which returns an empty list when the search fails
ListEpics ==
    /\ pc = "list_epics"
    /\ \E ok \in BOOLEAN, found \in EpicLists :
           LET listed == IF ok THEN found ELSE <<>>
           IN  /\ epics' = listed
               /\ trail' = (trail \ ConfirmAnswers)
                            \cup (IF ok THEN {} ELSE {"epics_failed"})
               /\ pc' = IF listed # <<>> THEN "epic_choice" ELSE "no_epics_prompt"
    /\ UNCHANGED <<disk, snap, read, results, available_versions, selected_epic_key,
                   selected_epic_name, new_epic_name, new_issue_key, run,
                   stdin_open, idx, log, created, failedWrites, faults, killed>>
    /\ UNCHANGED <<endpoint, applied>>

\* the epic handling of lines 164-284 is left with its result; epics,
\* available_versions and new_epic_name are not read again and are forgotten
SelectEpic(key, name, next, events) ==
    /\ selected_epic_key' = key
    /\ selected_epic_name' = name
    /\ trail' = trail \cup events
    /\ pc' = next
    /\ epics' = <<>>
    /\ available_versions' = <<>>
    /\ new_epic_name' = ""
    /\ UNCHANGED <<disk, snap, read, results, new_issue_key, run, stdin_open, idx,
                   log, created, failedWrites, faults, killed>>

\* the choice checked against the upper bound only: epics[-1] is the last
\* epic of the list
EpicChoiceNoLowerBound ==
    /\ pc = "epic_choice"
    /\ \E r \in Responses(EpicChoiceInputs) :
           IF r = EOF THEN CaughtEOF("epic_fail_prompt")
           ELSE LET choice == Upper(get_user_input(r, "N"))
                    at == IF IntOf(choice) = 0 THEN Len(epics) ELSE IntOf(choice)
                IN  IF choice = "N" THEN Goto("epic_name")
                    ELSE IF Lower(choice) = "none"
                    THEN SelectEpic("None", "N/A", "create", {})
                    ELSE IF IsInt(choice) /\ IntOf(choice) - 1 < Len(epics)
                    THEN SelectEpic(epics[at].key, epics[at].summary, "list_issues",
                                    {ChoiceEvent(IntOf(choice))})
                    ELSE Goto("epic_choice")
    /\ UNCHANGED <<endpoint, applied>>

\* lines 175-177 and 240-255
EpicChoice ==
    /\ pc = "epic_choice"
    /\ \E r \in Responses(EpicChoiceInputs) :
           IF r = EOF THEN CaughtEOF("epic_fail_prompt")
           ELSE LET choice == Upper(get_user_input(r, "N"))
                IN  IF choice = "N" THEN Goto("epic_name")
                    ELSE IF Lower(choice) = "none"
                    THEN SelectEpic("None", "N/A", "create", {})
                    ELSE IF IsInt(choice) /\ 0 <= IntOf(choice) - 1
                            /\ IntOf(choice) - 1 < Len(epics)
                    THEN SelectEpic(epics[IntOf(choice)].key,
                                    epics[IntOf(choice)].summary, "list_issues",
                                    {ChoiceEvent(IntOf(choice))})
                    ELSE Goto("epic_choice")
    /\ UNCHANGED <<endpoint, applied>>

\* line 258
NoEpicsPrompt ==
    /\ pc = "no_epics_prompt"
    /\ \E r \in Responses(YesNoInputs) :
           IF r = EOF THEN CaughtEOF("epic_fail_prompt")
           ELSE IF Lower(get_user_input(r, "yes")) = "yes" THEN Goto("epic_name")
           ELSE SelectEpic("None", "N/A", "create", {})
    /\ UNCHANGED <<endpoint, applied>>

\* lines 178-183 and 259-260, 274-275
EpicName ==
    /\ pc = "epic_name"
    /\ \E r \in Responses(NameInputs) :
           IF r = EOF THEN CaughtEOF("epic_fail_prompt")
           ELSE IF r = "" THEN SelectEpic("None", "N/A", "create", {})
           ELSE /\ new_epic_name' = r
                /\ pc' = "epic_desc"
                /\ UNCHANGED <<disk, snap, read, results, epics, available_versions,
                               selected_epic_key, selected_epic_name, new_issue_key,
                               trail, run, stdin_open, idx, log, created,
                               failedWrites, faults, killed>>
    /\ UNCHANGED <<endpoint, applied>>

\* lines 185 and 261-262
EpicDesc ==
    /\ pc = "epic_desc"
    /\ \E r \in Responses({"", "about"}) :
           IF r = EOF THEN CaughtEOF("epic_fail_prompt")
           ELSE IF epics # <<>> THEN Goto("list_versions")
           ELSE Goto("create_epic")
    /\ UNCHANGED <<endpoint, applied>>

\* lines 188-190 and 216-217, and JiraConnector.get_project_versions, lines
\* 388-413, which returns an empty list when the lookup fails
ListVersions ==
    /\ pc = "list_versions"
    /\ \E listed \in VersionLists :
       \E ok \in IF listed = <<>> THEN BOOLEAN ELSE {TRUE} :
           /\ available_versions' = listed
           /\ trail' = IF ok THEN trail ELSE trail \cup {"versions_failed"}
           /\ pc' = IF listed # <<>> THEN "version_select" ELSE "version_manual"
    /\ UNCHANGED <<disk, snap, read, results, epics, selected_epic_key,
                   selected_epic_name, new_epic_name, new_issue_key, run,
                   stdin_open, idx, log, created, failedWrites, faults, killed>>
    /\ UNCHANGED <<endpoint, applied>>

\* lines 195-215: every index must be in range, otherwise ask again
VersionSelect ==
    /\ pc = "version_select"
    /\ \E r \in Responses(VersionInputs) :
           IF r = EOF THEN CaughtEOF("epic_fail_prompt")
           ELSE LET version_selection_str == Lower(r)
                    picked == CommaSplit(version_selection_str)
                IN  IF version_selection_str = "" \/ version_selection_str = "none"
                    THEN Goto("create_epic")
                    ELSE IF \E i \in 1..Len(picked) : ~IsInt(picked[i])
                    THEN Goto("version_select")
                    ELSE IF \A i \in 1..Len(picked) :
                                /\ 0 <= IntOf(picked[i]) - 1
                                /\ IntOf(picked[i]) - 1 < Len(available_versions)
                    THEN Goto("create_epic")
                    ELSE Goto("version_select")
    /\ UNCHANGED <<endpoint, applied>>

\* lines 218-219
VersionManual ==
    /\ pc = "version_manual"
    /\ \E r \in Responses({"", "1.0"}) :
           IF r = EOF THEN CaughtEOF("epic_fail_prompt") ELSE Goto("create_epic")
    /\ UNCHANGED <<endpoint, applied>>

\* lines 221-239 and 263-273, and JiraConnector.create_jira_epic, lines
\* 328-386, which returns None when the tracker refuses
CreateEpic ==
    /\ pc = "create_epic"
    /\ \E created_epic_key \in {"None", "EPIC-NEW"} :
           IF created_epic_key # "None"
           THEN SelectEpic(created_epic_key, new_epic_name, "list_issues", {})
           ELSE SelectEpic("None", "N/A", "create", {"epic_create_failed"})
    /\ UNCHANGED <<endpoint, applied>>

\* lines 279-284: the handler's own prompt
EpicFailPrompt ==
    /\ pc = "epic_fail_prompt"
    /\ \E r \in Responses(YesNoInputs) :
           IF r = EOF THEN AbortRun
           ELSE IF Lower(get_user_input(r, "yes")) # "yes" THEN RetainEntry("declined_epic")
           ELSE SelectEpic("None", "N/A", "create", {"epicfail_yes"})
    /\ UNCHANGED <<endpoint, applied>>

\* lines 293-294
DuplicateSummaries(existing, final_summary) ==
    { i \in 1..Len(existing) :
          LowerText(existing[i].summary) = LowerText(final_summary) }

\* lines 287-294 and 303-304, and JiraConnector.get_stories_in_epic, lines
\* 251-275, which returns an empty list when the search fails
ListIssues ==
    /\ pc = "list_issues"
    /\ \E ok \in BOOLEAN, issues \in IssueLists(FinalSummary(EntryData)) :
           LET held == IF selected_epic_key = "EPIC-NEW"
                       THEN <<>> ELSE issues        \* an epic just created is empty
               existing_issues_in_epic == get_stories_in_epic(ok, held)
               seen == (IF ok THEN {} ELSE {"issues_failed"})
                       \cup (IF DuplicateSummaries(held, FinalSummary(EntryData)) # {}
                             THEN {"same_title"} ELSE {})
           IN  IF /\ existing_issues_in_epic # <<>>
                  /\ DuplicateSummaries(existing_issues_in_epic,
                                        FinalSummary(EntryData)) # {}
               THEN GotoNoting("dup_prompt", seen \cup {"dup_prompt"})
               ELSE GotoNoting("create", seen)
    /\ UNCHANGED <<endpoint, applied>>

\* lines 299-302
DupPrompt ==
    /\ pc = "dup_prompt"
    /\ \E r \in Responses(YesNoInputs) :
           IF r = EOF THEN CaughtEOF("dup_fail_prompt")
           ELSE IF Lower(get_user_input(r, "no")) # "yes" THEN RetainEntry("declined_duplicate")
           ELSE GotoNoting("create", {"dup_yes"})
    /\ UNCHANGED <<endpoint, applied>>

\* lines 305-309
DupFailPrompt ==
    /\ pc = "dup_fail_prompt"
    /\ \E r \in Responses(YesNoInputs) :
           IF r = EOF THEN AbortRun
           ELSE IF Lower(get_user_input(r, "no")) # "yes" THEN RetainEntry("declined_duplicate")
           ELSE GotoNoting("create", {"dupfail_yes"})
    /\ UNCHANGED <<endpoint, applied>>

\* the duplicate check placed after the creation: a created issue is
\* looked up among the issues of its epic before the transition
CreateIssueThenCheck ==
    /\ pc = "create"
    /\ \E ok \in BOOLEAN :
           IF ~ok
           THEN RetainEntry("create_failed")
           ELSE /\ new_issue_key' = ToString(TotalCreated + 1)
                /\ created' = AddCreated(created, FinalSummary(EntryData))
                /\ trail' = trail \cup {CreatedAs(create_jira_issue_type(
                                             IssueType(EntryData), <<"Story">>))}
                /\ pc' = IF selected_epic_key = "None" \/ "dup_yes" \in trail
                         THEN "transition" ELSE "dup_prompt"
                /\ UNCHANGED <<disk, snap, read, results, epics, available_versions,
                               selected_epic_key, selected_epic_name, new_epic_name,
                               run, stdin_open, idx, log, failedWrites,
                               faults, killed>>
    /\ UNCHANGED <<endpoint, applied>>

\* createIssue with the check of line 328 left out
CreateIssueUnchecked ==
    /\ pc = "create"
    /\ \E ok \in BOOLEAN :
           /\ new_issue_key' = IF ok THEN ToString(TotalCreated + 1) ELSE "None"
           /\ created' = IF ok THEN AddCreated(created, FinalSummary(EntryData))
                         ELSE created
           /\ log' = IF ok THEN log ELSE log \cup {<<idx, "create_failed">>}
    /\ pc' = "transition"
    /\ UNCHANGED <<disk, snap, read, results, epics, available_versions,
                   selected_epic_key, selected_epic_name, new_epic_name, trail,
                   run, stdin_open, idx, failedWrites, faults, killed>>
    /\ UNCHANGED <<endpoint, applied>>

\* createIssue letting the tracker's exception through: the process ends
CreateIssueRaises ==
    /\ pc = "create"
    /\ \E ok \in BOOLEAN :
           IF ~ok
           THEN /\ pc' = "aborted"
                /\ UNCHANGED <<disk, snap, read, results, locals, run, stdin_open,
                               idx, log, created, failedWrites, faults, killed>>
           ELSE /\ new_issue_key' = ToString(TotalCreated + 1)
                /\ created' = AddCreated(created, FinalSummary(EntryData))
                /\ trail' = trail \cup {CreatedAs(create_jira_issue_type(
                                             IssueType(EntryData), <<"Story">>))}
                /\ pc' = "transition"
                /\ UNCHANGED <<disk, snap, read, results, epics, available_versions,
                               selected_epic_key, selected_epic_name, new_epic_name,
                               run, stdin_open, idx, log, failedWrites,
                               faults, killed>>
    /\ UNCHANGED <<endpoint, applied>>

\* lines 313-332, and JiraConnector.create_jira_issue, lines 277-326, which
\* returns None when the tracker refuses
CreateIssue ==
    /\ pc = "create"
    /\ \E ok \in BOOLEAN :
           IF ~ok
           THEN RetainEntry("create_failed")
           ELSE /\ new_issue_key' = ToString(TotalCreated + 1)
                /\ created' = AddCreated(created, FinalSummary(EntryData))
                /\ trail' = trail \cup {CreatedAs(create_jira_issue_type(
                                             IssueType(EntryData), <<"Story">>))}
                /\ pc' = "transition"
                /\ UNCHANGED <<disk, snap, read, results, epics, available_versions,
                               selected_epic_key, selected_epic_name, new_epic_name,
                               run, stdin_open, idx, log, failedWrites,
                               faults, killed>>
    /\ UNCHANGED <<endpoint, applied>>

\* a failed transition treated like a failed creation: the entry is retained
TransitionIssueFatal ==
    /\ pc = "transition"
    /\ \E listed \in BOOLEAN :
       \E transitions \in IF listed THEN TransitionLists ELSE {<<>>} :
       \E executed \in IF FirstMatch(transitions) # "None" THEN BOOLEAN ELSE {FALSE} :
           LET transition_success == transition_jira_issue(listed, transitions, executed)
               committed_entry_str ==
                   CommittedEntryStr(EntryData, selected_epic_name, selected_epic_key,
                                     new_issue_key, "Done")
           IN  /\ processed_successfully_texts' =
                      Append(processed_successfully_texts,
                             IF transition_success THEN EntryText ELSE NoneText)
               /\ all_committed_entries_text' =
                      IF transition_success
                      THEN Append(all_committed_entries_text, committed_entry_str)
                      ELSE all_committed_entries_text
               /\ log' = log \cup {<<idx, "transition">>}
                             \cup (IF transition_success THEN {}
                                   ELSE {<<idx, "transition_failed">>})
    /\ pc' = "loop"
    /\ ResetLocals
    /\ UNCHANGED <<disk, snap, read, run, stdin_open, idx, created, failedWrites, faults, killed>>
    /\ UNCHANGED <<endpoint, applied>>

\* process_single_entry, lines 334-358, and main, lines 526-529; the log
\* notes that transition_jira_issue was called and whether it returned False
TransitionIssue ==
    /\ pc = "transition"
    /\ \E listed \in BOOLEAN :
       \E transitions \in IF listed THEN TransitionLists ELSE {<<>>} :
       \E executed \in IF FirstMatch(transitions) # "None" THEN BOOLEAN ELSE {FALSE} :
           LET transition_success == transition_jira_issue(listed, transitions, executed)
               status == current_story_status_for_changelog(transition_success)
               committed_entry_str ==
                   CommittedEntryStr(EntryData, selected_epic_name, selected_epic_key,
                                     new_issue_key, status)
           IN  /\ processed_successfully_texts' =
                      Append(processed_successfully_texts, EntryText)
               /\ all_committed_entries_text' =
                      Append(all_committed_entries_text, committed_entry_str)
               /\ log' = log \cup {<<idx, "transition">>}
                             \cup (IF transition_success THEN {}
                                   ELSE {<<idx, "transition_failed">>})
    /\ pc' = "loop"
    /\ ResetLocals
    /\ UNCHANGED <<disk, snap, read, run, stdin_open, idx, created, failedWrites, faults, killed>>
    /\ UNCHANGED <<endpoint, applied>>

\* ------------------------------------------------------- main, the writes
Remaining == RemainingPendingTexts(pending_entry_texts, processed_successfully_texts)

\* main, lines 539-545
AppendCommitted ==
    /\ pc = "write_committed"
    /\ IF all_committed_entries_text = <<>>
       THEN UNCHANGED <<committedFile, committedExists>>
       ELSE /\ committedFile' =
                   committedFile \o CommittedAppendText(all_committed_entries_text)
            /\ committedExists' = TRUE
    /\ pc' = "write_pending1"
    /\ UNCHANGED <<pendingFile, snap, read, results, locals, run, stdin_open, idx,
                   log, created, failedWrites, faults, killed>>
    /\ UNCHANGED <<endpoint, applied>>

\* main, lines 541-547: open or write raises, the handler logs and goes on;
\* written: whether open succeeded, k: the entries written before the error
AppendCommittedFails ==
    /\ pc = "write_committed"
    /\ faults < MaxFaults
    /\ faults' = faults + 1
    /\ all_committed_entries_text # <<>>
    /\ \E opened \in BOOLEAN, k \in 0..(Len(all_committed_entries_text) - 1) :
           IF opened
           THEN /\ committedFile' = committedFile
                       \o CommittedAppendText(SubSeq(all_committed_entries_text, 1, k))
                /\ committedExists' = TRUE
           ELSE UNCHANGED <<committedFile, committedExists>>
    /\ failedWrites' = failedWrites \cup {"committed"}
    /\ pc' = "write_pending1"
    /\ UNCHANGED <<pendingFile, snap, read, results, locals, run, stdin_open, idx,
                   log, created, killed>>
    /\ UNCHANGED <<endpoint, applied>>

\* main, lines 563-596
WritePending1 ==
    /\ pc = "write_pending1"
    /\ pendingFile' = Concat(PendingWrite1Chunks(template_section, Remaining))
    /\ pc' = "write_pending2"
    /\ UNCHANGED <<committedFile, committedExists, snap, read, results, locals, run,
                   stdin_open, idx, log, created, failedWrites, faults, killed>>
    /\ UNCHANGED <<endpoint, applied>>

\* main, lines 563-564 and 610-611: open raises (the file is untouched) or a
\* write raises (the file was truncated by open)
WritePending1Fails ==
    /\ pc = "write_pending1"
    /\ faults < MaxFaults
    /\ faults' = faults + 1
    /\ \E left \in {pendingFile}
                   \cup PartialWrites(PendingWrite1Chunks(template_section, Remaining)) :
           pendingFile' = left
    /\ pc' = "write_pending2"
    /\ UNCHANGED <<committedFile, committedExists, snap, read, results, locals, run,
                   stdin_open, idx, log, created, failedWrites, killed>>
    /\ UNCHANGED <<endpoint, applied>>

\* main, lines 616-656
WritePending2 ==
    /\ pc = "write_pending2"
    /\ pendingFile' = Concat(PendingWrite2Chunks(template_section, Remaining))
    /\ pc' = "done"
    /\ UNCHANGED <<committedFile, committedExists, snap, read, results, locals, run,
                   stdin_open, idx, log, created, failedWrites, faults, killed>>
    /\ UNCHANGED <<endpoint, applied>>

\* main, lines 616-617 and 657-658
WritePending2Fails ==
    /\ pc = "write_pending2"
    /\ faults < MaxFaults
    /\ faults' = faults + 1
    /\ \E left \in {pendingFile}
                   \cup PartialWrites(PendingWrite2Chunks(template_section, Remaining)) :
           pendingFile' = left
    /\ failedWrites' = failedWrites \cup {"pending"}
    /\ pc' = "done"
    /\ UNCHANGED <<committedFile, committedExists, snap, read, results, locals, run,
                   stdin_open, idx, log, created, killed>>
    /\ UNCHANGED <<endpoint, applied>>

\* the process is killed while one of the two open(..., "w") blocks runs
CrashInRewrite ==
    /\ pc \in {"write_pending1", "write_pending2"}
    /\ faults < MaxFaults
    /\ faults' = faults + 1
    /\ \E left \in PartialWrites(
                       IF pc = "write_pending1"
                       THEN PendingWrite1Chunks(template_section, Remaining)
                       ELSE PendingWrite2Chunks(template_section, Remaining)) :
           pendingFile' = left
    /\ pc' = "crashed"
    /\ killed' = TRUE
    /\ UNCHANGED <<committedFile, committedExists, snap, read, results, locals, run,
                   stdin_open, idx, log, created, failedWrites>>
    /\ UNCHANGED <<endpoint, applied>>

RunOver == pc \in {"exit", "aborted", "crashed", "done"}

\* the script is started again: a new process, the files as they were left
NextRun ==
    /\ RunOver
    /\ run < MaxRuns
    /\ run' = run + 1
    /\ pc' = "start"
    /\ stdin_open' = TRUE
    /\ template_section' = <<>>
    /\ pending_entry_texts' = <<>>
    /\ processed_successfully_texts' = <<>>
    /\ all_committed_entries_text' = <<>>
    /\ idx' = 0
    /\ ResetLocals
    /\ preRunPending' = pendingFile
    /\ preRunCommitted' = [exists |-> committedExists, text |-> committedFile]
    /\ log' = {}
    /\ failedWrites' = {}
    /\ UNCHANGED <<disk, created, faults, origPending, killed>>
    /\ UNCHANGED <<endpoint, applied>>

Next ==
    \/ ReadPending
    \/ InitConnector
    \/ AskUsername
    \/ SkipUnparsed
    \/ BeginEntry
    \/ FinishLoop
    \/ Confirm
    \/ ListEpics
    \/ EpicChoice
    \/ NoEpicsPrompt
    \/ EpicName
    \/ EpicDesc
    \/ ListVersions
    \/ VersionSelect
    \/ VersionManual
    \/ CreateEpic
    \/ EpicFailPrompt
    \/ ListIssues
    \/ DupPrompt
    \/ DupFailPrompt
    \/ CreateIssue
    \/ TransitionIssue
    \/ AppendCommitted
    \/ AppendCommittedFails
    \/ WritePending1
    \/ WritePending1Fails
    \/ WritePending2
    \/ WritePending2Fails
    \/ CrashInRewrite
    \/ NextRun

Spec == Init /\ [][Next]_vars


\* ==================================================================== claims
CommittedIdx ==
    { i \in 1..Len(processed_successfully_texts) :
          processed_successfully_texts[i] # NoneText }
RetainedIdx ==
    { i \in 1..Len(processed_successfully_texts) :
          processed_successfully_texts[i] = NoneText }
RankIn(S, i) == Cardinality({ j \in S : j <= i })
Contains(s, pat) == Find(s, pat, 1) # 0

\* the committed entry string that the run built for entry i
RecordOf(i) == all_committed_entries_text[RankIn(CommittedIdx, i)]

\* what this run added to the committed log on disk
AppendedText ==
    SubSeq(committedFile, Len(preRunCommitted.text) + 1, Len(committedFile))
AppendedCount == Len(Split(AppendedText, ENTRY_SEPARATOR \o <<"n">>)) - 1

\* the entry blocks of the pending log on disk that follow the template
KeptBody == SubSeq(pendingFile, Len(template_section) + 1, Len(pendingFile))
KeptBlocks ==
    IF KeptBody = PlaceholderComment THEN <<>> ELSE PendingEntryTexts(KeptBody)

\* the entry blocks a reader finds in a pending log
BlocksOf(file) == PendingEntryTexts(TemplatePartition(file).processed_content)
CountIn(seq, x) == Cardinality({ k \in 1..Len(seq) : seq[k] = x })

RunDone == pc = "done"
WritesSucceeded == failedWrites = {}
PendingRewritten == RunDone /\ "pending" \notin failedWrites

BlockStillOnDisk(i) ==
    CountIn(BlocksOf(pendingFile), pending_entry_texts[i])
        > CountIn(Remaining, pending_entry_texts[i])

\* C2: an entry is never written to both logs. At the end of a run, also of
\* one in which a log write raised, no entry committed in this run has its
\* record in the committed log while the pending log on disk still holds its
\* block.
C2_NeverInBothLogs ==
    RunDone =>
        \A i \in CommittedIdx :
            ~(Contains(AppendedText, RecordOf(i)) /\ BlockStillOnDisk(i))

\* C3: creation-failure retention. An entry for which createIssue returned no
\* key is returned as a failure (its slot is None), no transition is attempted
\* for it, only the entries that succeeded have a committed entry string, the
\* committed log receives nothing but those strings, and the rewritten pending
\* log keeps the entry's block.
C3_CreationFailureRetained ==
    \A i \in 1..Len(pending_entry_texts) :
        <<i, "create_failed">> \in log =>
            /\ <<i, "transition">> \notin log
            /\ i <= Len(processed_successfully_texts)
            /\ processed_successfully_texts[i] = NoneText
            /\ Len(all_committed_entries_text) = Cardinality(CommittedIdx)
            /\ \E k \in 0..Len(all_committed_entries_text) :
                   AppendedText =
                       CommittedAppendText(SubSeq(all_committed_entries_text, 1, k))
            /\ PendingRewritten =>
                   KeptBlocks[RankIn(RetainedIdx, i)] = pending_entry_texts[i]

C3_Witness ==
    /\ PendingRewritten
    /\ <<1, "create_failed">> \in log
    /\ 2 \in CommittedIdx
    /\ AppendedCount = 1

OrigTexts == BlocksOf(origPending)
OrigTitled(t) ==
    { k \in 1..Len(OrigTexts) :
          /\ parse_pending_entry(OrigTexts[k]) # EmptyDict
          /\ FinalSummary(parse_pending_entry(OrigTexts[k])) = t }
NeverCreated(k) ==
    \/ parse_pending_entry(OrigTexts[k]) = EmptyDict
    \/ FinalSummary(parse_pending_entry(OrigTexts[k])) \notin DOMAIN created

\* C4, first half: over any sequence of runs the tracker is never asked twice
\* to create the same entry: the issues created under a title are at most the
\* entries of the original pending log with that title.
C4_NoResubmission ==
    \A t \in DOMAIN created : created[t] <= Cardinality(OrigTitled(t))

\* C4: no entry is lost or duplicated across runs that complete, are aborted by
\* a closed input stream or hit a tracker or file-write failure: no entry is
\* submitted again once createIssue succeeded for it, and between runs an
\* entry for which createIssue never succeeded is still in the pending log.
C4_NoLossNoDuplicate ==
    /\ C4_NoResubmission
    /\ (pc \in {"exit", "aborted", "done"} /\ ~killed) =>
           \A k \in 1..Len(OrigTexts) :
               NeverCreated(k) => Contains(pendingFile, OrigTexts[k])

\* C5: cancellation. Once input() has raised EOFError in a run, the run is over
\* or about to be (only a handler's own prompt, which raises again, is left),
\* and both logs on disk are what they were when the run started.
C5_AbortLeavesLogs ==
    ~stdin_open =>
        /\ pc \in {"aborted", "epic_fail_prompt", "dup_fail_prompt"}
        /\ pendingFile = preRunPending
        /\ committedFile = preRunCommitted.text
        /\ committedExists = preRunCommitted.exists

C5_Witness ==
    /\ pc = "aborted"
    /\ all_committed_entries_text # <<>>
    /\ idx = 2

\* C6: atomic rewrite. A run killed during the rewrite of the pending log
\* leaves on disk either the complete pre-run content or the complete new
\* content.
C6_AtomicRewrite ==
    pc = "crashed" =>
        pendingFile \in { preRunPending,
                          Concat(PendingWrite2Chunks(template_section, Remaining)) }

\* C7: persistence failure. When the append to the committed log raises,
\* nothing of this run is left half-written in it and the pending log is not
\* rewritten without the entries committed in the run: no entry ends the run
\* in neither log.
C7_NoEntryInNeitherLog ==
    RunDone =>
        /\ "committed" \in failedWrites => AppendedText = <<>>
        /\ \A i \in CommittedIdx :
               Contains(AppendedText, RecordOf(i)) \/ BlockStillOnDisk(i)

\* the template block of a pending log: up to and including the leftmost
\* separator after the leftmost end marker, or up to the end of the marker
\* when no separator follows it
TemplatePrefixOf(file) ==
    LET m == Find(file, TEMPLATE_END_MARKER, 1)
        s == Find(file, ENTRY_SEPARATOR, m + Len(TEMPLATE_END_MARKER))
    IN  IF m = 0 THEN <<>>
        ELSE IF s # 0 THEN SubSeq(file, 1, s + Len(ENTRY_SEPARATOR) - 1)
        ELSE SubSeq(file, 1, m + Len(TEMPLATE_END_MARKER) - 1)

\* C8: template preservation. The rewritten pending log begins with the
\* template block of the pre-run log, byte for byte, however many entries
\* were committed.
C8_TemplatePreserved ==
    PendingRewritten => StartsWith(pendingFile, TemplatePrefixOf(preRunPending))

C8_Witness ==
    /\ PendingRewritten
    /\ EndsWith(TemplatePrefixOf(preRunPending), ENTRY_SEPARATOR)
    /\ Len(pending_entry_texts) = 2
    /\ CommittedIdx = {1, 2}
    /\ StartsWith(pendingFile, TemplatePrefixOf(preRunPending))

\* the text between the separators of an entry content, blank pieces left out
RawBlocksOf(content) ==
    SelectSeq(Split(content, ENTRY_SEPARATOR), LAMBDA piece : Strip(piece) # <<>>)

\* C9: in the rewritten pending log every retained entry has, between its
\* separators, exactly the text it had in the pre-run log, leading and
\* trailing whitespace included.
C9_RetainedTextIdentical ==
    (PendingRewritten /\ RetainedIdx # {}) =>
        /\ Len(RawBlocksOf(KeptBody)) = Cardinality(RetainedIdx)
        /\ \A i \in RetainedIdx :
               RawBlocksOf(KeptBody)[RankIn(RetainedIdx, i)]
                   = RawBlocksOf(TemplatePartition(preRunPending).processed_content)[i]

AllDeclined ==
    \A i \in 1..Len(pending_entry_texts) :
        <<i, "declined">> \in log \/ <<i, "unparsed">> \in log

\* C10: idempotent re-run. A run in which the operator declines every entry
\* leaves the pending log byte-identical: after the first such run the file
\* equals the original, after the second it equals the file after the first.
C10_IdempotentRerun ==
    (PendingRewritten /\ AllDeclined) => pendingFile = preRunPending


\* entries of this run for which create_jira_issue was called
CreateCalledIdx ==
    { i \in 1..Len(pending_entry_texts) :
          \/ <<i, "create_failed">> \in log
          \/ <<i, "transition">> \in log
          \/ (i = idx /\ pc = "transition") }

\* C11: duplicate gate. When an epic is linked and the tracker holds, under
\* that epic, an issue whose title equals the entry's title ignoring case,
\* create_jira_issue is reached only after the question of line 299 was asked
\* and answered yes; an entry declined at that question is retained and
\* create_jira_issue is never called for it.
C11_DuplicateGate ==
    /\ (/\ pc \in {"create", "transition"}
        /\ selected_epic_key # "None"
        /\ "same_title" \in trail)
           => {"dup_prompt", "dup_yes"} \subseteq trail
    /\ \A i \in 1..Len(pending_entry_texts) :
           <<i, "declined_duplicate">> \in log =>
               /\ processed_successfully_texts[i] = NoneText
               /\ i \notin CreateCalledIdx


\* the keys the tracker has given out
IssuedKeys == { ToString(k) : k \in 1..TotalCreated }

\* C12: transition non-fatality. When create_jira_issue returned a key and
\* transition_jira_issue returned False (no transition name matches, or
\* listing or executing raised), the entry is committed all the same: its
\* record carries the new key and the status "Open", the record is what the
\* append writes, and the rewritten pending log no longer holds its block.
C12_TransitionNonFatal ==
    \A i \in 1..Len(pending_entry_texts) :
        <<i, "transition_failed">> \in log =>
            /\ i \in CommittedIdx
            /\ Contains(RecordOf(i), <<"(Status: ", "Open", ")">>)
            /\ \E key \in IssuedKeys : Contains(RecordOf(i), <<": ", key, " - ">>)
            /\ (RunDone /\ "committed" \notin failedWrites) =>
                   Contains(AppendedText, RecordOf(i))
            /\ PendingRewritten => ~BlockStillOnDisk(i)

C12_Witness ==
    /\ RunDone /\ WritesSucceeded
    /\ <<1, "transition_failed">> \in log
    /\ Contains(committedFile, <<"(Status: ", "Open", ")">>)
    /\ Len(pending_entry_texts) = 2
    /\ RetainedIdx = {2}


\* positions of process_single_entry: an operator prompt or a tracker call
InEntry ==
    pc \in {"confirm", "list_epics", "epic_choice", "no_epics_prompt", "epic_name",
            "epic_desc", "list_versions", "version_select", "version_manual",
            "create_epic", "epic_fail_prompt", "list_issues", "dup_prompt",
            "dup_fail_prompt", "create", "transition"}

EventsOf(i) == { e[2] : e \in { l \in log : l[1] = i } }

\* C13: malformed entry. A block from which parse_pending_entry extracts no
\* title is never the entry process_single_entry works on (no prompt, no
\* tracker call), it has no outcome but being skipped, and the rewritten
\* pending log holds its block.
C13_MalformedRetained ==
    /\ InEntry => parse_pending_entry(EntryText) # EmptyDict
    /\ \A i \in 1..Len(processed_successfully_texts) :
           parse_pending_entry(pending_entry_texts[i]) = EmptyDict =>
               /\ EventsOf(i) = {"unparsed"}
               /\ processed_successfully_texts[i] = NoneText
               /\ PendingRewritten =>
                      KeptBlocks[RankIn(RetainedIdx, i)] = pending_entry_texts[i]

C13_Witness ==
    /\ PendingRewritten
    /\ Len(pending_entry_texts) = 2
    /\ parse_pending_entry(pending_entry_texts[1]) = EmptyDict
    /\ CommittedIdx = {2}


\* C14: a failure of the duplicate check is surfaced. When the search for the
\* issues under the selected epic failed, create_jira_issue is reached only
\* after the operator was asked whether to proceed (line 307) and answered
\* yes; the failure is not taken for an epic without issues.
C14_DetectorFailureSurfaced ==
    (pc \in {"create", "transition"} /\ "issues_failed" \in trail)
        => "dupfail_yes" \in trail


\* C15: a failure of the epic resolution is operator-mediated. When listing
\* the epics or creating the new epic failed and no epic is linked,
\* create_jira_issue is reached only after the operator was asked whether to
\* proceed without an epic (line 281) and answered yes; an entry declined at
\* that question is retained and never created.
C15_EpicFailureMediated ==
    /\ (/\ pc \in {"create", "transition"}
        /\ selected_epic_key = "None"
        /\ trail \cap {"epics_failed", "epic_create_failed"} # {})
           => "epicfail_yes" \in trail
    /\ \A i \in 1..Len(pending_entry_texts) :
           <<i, "declined_epic">> \in log =>
               /\ processed_successfully_texts[i] = NoneText
               /\ i \notin CreateCalledIdx


TrackerFailures ==
    {"epics_failed", "versions_failed", "epic_create_failed", "issues_failed"}

\* C16: tracker errors never abort the batch. While an entry is processed a
\* failed tracker call leaves the run inside process_single_entry or back in
\* the loop with one more slot filled, so that the next entry or the writing
\* of the logs follows; the run stops early only on a closed input stream
\* (aborted) or before the loop (exit).
C16_TrackerErrorsContained ==
    /\ pc = "aborted" => ~stdin_open
    /\ pc = "exit" => (idx = 0 /\ log = {})
    /\ trail \cap TrackerFailures # {} => (InEntry \/ pc = "aborted")
    /\ pc = "loop" =>
           /\ idx <= Len(pending_entry_texts)
           /\ Len(processed_successfully_texts) = idx
    /\ \A i \in 1..Len(pending_entry_texts) :
           EventsOf(i) \cap {"create_failed", "transition_failed"} # {} =>
               /\ i <= Len(processed_successfully_texts)
               /\ pc \in {"aborted", "exit"} => ~stdin_open

C16_Witness ==
    /\ pc = "write_committed"
    /\ stdin_open
    /\ <<1, "create_failed">> \in log
    /\ <<2, "transition_failed">> \in log


\* the record blocks this run added to the committed log on disk
AppendedBlocks ==
    LET pieces == Split(AppendedText, ENTRY_SEPARATOR \o <<"n">>)
    IN  [k \in 1..(Len(pieces) - 1) |-> pieces[k] \o ENTRY_SEPARATOR]

\* the process has ended: after its last statement, or by an uncaught EOFError
RunEnded == pc \in {"done", "aborted"}

\* C17: the committed log is append-only. In every state the committed log
\* begins with its pre-run content and a file that existed still exists; after
\* any run, what follows the pre-run content is one record block per entry
\* committed in the run, in source order, each ending with the separator and
\* naming the entry's title, and the file exists if anything was committed.
C17_CommittedAppendOnly ==
    /\ StartsWith(committedFile, preRunCommitted.text)
    /\ preRunCommitted.exists => committedExists
    /\ RunEnded =>
           LET blocks == AppendedBlocks
           IN  /\ Len(blocks) = Cardinality(CommittedIdx)
               /\ CommittedIdx # {} => committedExists
               /\ \A i \in CommittedIdx :
                      LET block == blocks[RankIn(CommittedIdx, i)]
                      IN  /\ block = RecordOf(i)
                          /\ EndsWith(block, ENTRY_SEPARATOR)
                          /\ Contains(block,
                                      <<" - ">> \o FinalSummary(parse_pending_entry(
                                                       pending_entry_texts[i]))
                                      \o <<"(Status: ">>)




\* C18: content of the rewritten pending log. After a completed run whose
\* rewrite went through, the pending log is exactly the template block the run
\* read, followed by the retained entries joined by the separator and one
\* trailing separator when an entry is retained, or by the placeholder comment
\* when none is; the template generated by the first of the two writes is not
\* left in the file.
C18_PendingContentExact ==
    PendingRewritten =>
        /\ pendingFile =
               template_section
               \o (IF Remaining # <<>>
                   THEN Join(Remaining, ENTRY_SEPARATOR) \o ENTRY_SEPARATOR
                   ELSE PlaceholderComment)
        /\ template_section = <<>> => ~StartsWith(pendingFile, FreshTemplate)


\* C19: a tracker connector that cannot be built. When the run ends because
\* JiraConnector() raised for a missing API token (entries were found, and the
\* run is at its exit), no entry was started and no prompt about an entry was
\* shown, no tracker call was made, nothing was collected for the logs, and
\* the pending log and the committed log are as they were before the run.
C19_InitFailureNoEffect ==
    (pc = "exit" /\ pending_entry_texts # <<>>) =>
        /\ pendingFile = preRunPending
        /\ committedFile = preRunCommitted.text
        /\ committedExists = preRunCommitted.exists
        /\ idx = 0
        /\ processed_successfully_texts = <<>>
        /\ all_committed_entries_text = <<>>
        /\ log = {}
        /\ trail = {}
        /\ failedWrites = {}

C19_Witness ==
    /\ pc = "exit"
    /\ Len(pending_entry_texts) = 2
    /\ run = 2
    /\ preRunCommitted.text # <<>>


\* ============================================== the match-epics endpoint
\* roia-suite/backend/app/routers/jira.py, match_epics, with the service it is
\* given: the JiraService of app/services/jira_service.py, or the MagicMock
\* that tests/test_jira_project_features.py patches in. Requests carry no
\* user_info; scores are in hundredths.

ALLOWED_PROJECT_KEYS == {"ROIA", "PROPS"}
ProjectKeys == ALLOWED_PROJECT_KEYS \cup {"OTHER"}
\* how a call on the service ended: with a list, or with an exception
Returned(l) == [kind |-> "return", value |-> l]
RaisedWith(e) == [kind |-> e, value |-> <<>>]
Raised == { RaisedWith(e) : e \in {"Exception", "ValueError"} }

\* a JiraEpic as get_epics builds it: match_score has its default
JiraEpics ==
    [epic_key : {"E-1", "E-2"}, keyword_hits : 0..1, recent_activity : BOOLEAN,
     match_score : {0}]

RECURSIVE JiraEpicLists(_)
JiraEpicLists(k) ==
    IF k = 0 THEN { <<>> }
    ELSE JiraEpicLists(k - 1)
         \cup { Append(l, e) : l \in { m \in JiraEpicLists(k - 1) : Len(m) = k - 1 },
                               e \in JiraEpics }

TrackerEpicLists ==
    { l \in JiraEpicLists(MaxEpics) :
          \A i, j \in 1..Len(l) : i # j => l[i].epic_key # l[j].epic_key }

Trackers ==
    { [state |-> "up", epics |-> l] : l \in TrackerEpicLists }
    \cup { [state |-> s, epics |-> <<>>] : s \in {"down", "no_token"} }

\* JiraService._calculate_epic_match_score without user_info, for an epic that
\* has no issues
calculate_epic_match_score(epic) ==
    LET score == 15 * epic.keyword_hits + (IF epic.recent_activity THEN 10 ELSE 0)
    IN  IF score > 100 THEN 100 ELSE score

RECURSIVE InsertByScore(_, _)
InsertByScore(sorted, e) ==
    IF sorted = <<>> THEN <<e>>
    ELSE IF Head(sorted).match_score >= e.match_score
    THEN <<Head(sorted)>> \o InsertByScore(Tail(sorted), e)
    ELSE <<e>> \o sorted

RECURSIVE SortedByScore(_)
\* sorted(all_epics, key=match_score, reverse=True): stable
SortedByScore(l) ==
    IF l = <<>> THEN <<>>
    ELSE InsertByScore(SortedByScore(SubSeq(l, 1, Len(l) - 1)), l[Len(l)])

\* JiraService.get_epics: the epics of the project, or the exception of the
\* failed search, re-raised
get_epics(t) ==
    IF t.state = "up" THEN Returned(t.epics) ELSE RaisedWith("Exception")

\* JiraService.find_matching_epics: every exception ends in the empty list
find_matching_epics(t, n) ==
    IF t.state # "up" THEN Returned(<<>>)
    ELSE LET scored == [i \in 1..Len(t.epics) |->
                           [t.epics[i] EXCEPT
                                !.match_score = calculate_epic_match_score(t.epics[i])]]
             ranked == SortedByScore(scored)
         IN  Returned(SubSeq(ranked, 1, IF n < Len(ranked) THEN n ELSE Len(ranked)))

\* the service calls that find_matching_epics makes on itself
MatchingCalls(service, t, key) ==
    IF service = "JiraService" /\ t.state # "no_token"
    THEN << <<"get_epics", key>> >> ELSE <<>>

\* what a MagicMock method is set up to give: a return_value or a side_effect
MockResults ==
    { Returned(<<>>),
      Returned(<< [epic_key |-> "ROIA-100", keyword_hits |-> 0,
                   recent_activity |-> FALSE, match_score |-> 85] >>),
      Returned(<< [epic_key |-> "ROIA-200", keyword_hits |-> 0,
                   recent_activity |-> FALSE, match_score |-> 0] >>) }
    \cup Raised

\* the pipeline's variables while only the endpoint is looked at
PipelineAtRest ==
    /\ pendingFile = <<>>
    /\ committedExists = FALSE
    /\ committedFile = <<>>
    /\ pc = "start"
    /\ run = 1
    /\ stdin_open = TRUE
    /\ template_section = <<>>
    /\ pending_entry_texts = <<>>
    /\ processed_successfully_texts = <<>>
    /\ all_committed_entries_text = <<>>
    /\ idx = 0
    /\ epics = <<>>
    /\ available_versions = <<>>
    /\ selected_epic_key = "None"
    /\ selected_epic_name = "N/A"
    /\ new_epic_name = ""
    /\ new_issue_key = "None"
    /\ trail = {}
    /\ preRunPending = <<>>
    /\ preRunCommitted = [exists |-> FALSE, text |-> <<>>]
    /\ log = {}
    /\ created = [t \in {} |-> 0]
    /\ failedWrites = {}
    /\ faults = 0
    /\ origPending = <<>>
    /\ killed = FALSE

pipeline ==
    <<pendingFile, committedFile, committedExists, pc, run, stdin_open,
      template_section, pending_entry_texts, processed_successfully_texts,
      all_committed_entries_text, idx, epics, available_versions,
      selected_epic_key, selected_epic_name, new_epic_name, new_issue_key,
      trail, preRunPending, preRunCommitted, log, created, failedWrites, faults,
      origPending, killed>>

\* a request arrives
InitMatchEpics ==
    /\ PipelineAtRest
    /\ endpoint_pc = "request"
    /\ project_key \in ProjectKeys
    /\ max_results \in 0..MaxMatchResults
    /\ jira_service \in {"JiraService", "MagicMock"}
    /\ tracker \in IF jira_service = "JiraService" THEN Trackers ELSE {NoTracker}
    /\ matching_epics = NoResult
    /\ all_epics = NoResult
    /\ response = NoResponse
    /\ calls = <<>>
    /\ applied = NoCall

\* match_epics, lines 152-158
ValidateProjectKey ==
    /\ endpoint_pc = "request"
    /\ IF project_key \in ALLOWED_PROJECT_KEYS
       THEN /\ endpoint_pc' = "matching"
            /\ UNCHANGED response
       ELSE /\ endpoint_pc' = "responded"
            /\ response' = [status |-> 400, body |-> <<>>]
    /\ UNCHANGED <<project_key, max_results, jira_service, tracker, matching_epics,
                   all_epics, calls, pipeline, applied>>

\* match_epics, lines 183-195, and the except clause of line 197 being entered
FindMatchingEpics ==
    /\ endpoint_pc = "matching"
    /\ \E result \in IF jira_service = "MagicMock" THEN MockResults
                     ELSE {find_matching_epics(tracker, max_results)} :
           /\ matching_epics' = result
           /\ IF result \in Raised
              THEN /\ endpoint_pc' = "fallback"
                   /\ UNCHANGED response
              ELSE /\ endpoint_pc' = "responded"
                   /\ response' = [status |-> 200, body |-> result.value]
    /\ calls' = calls \o << <<"find_matching_epics", project_key>> >>
                      \o MatchingCalls(jira_service, tracker, project_key)
    /\ UNCHANGED <<project_key, max_results, jira_service, tracker, all_epics,
                   pipeline, applied>>

\* match_epics, lines 197-212: the fallback, and the outer handlers when the
\* fallback raises too
FallbackToAllEpics ==
    /\ endpoint_pc = "fallback"
    /\ \E result \in IF jira_service = "MagicMock" THEN MockResults
                     ELSE {get_epics(tracker)} :
           /\ all_epics' = result
           /\ response' =
                  IF result.kind = "ValueError" THEN [status |-> 422, body |-> <<>>]
                  ELSE IF result.kind = "Exception"
                  THEN [status |-> 500, body |-> <<>>]
                  ELSE [status |-> 200, body |-> result.value]
    /\ calls' = Append(calls, <<"get_epics", project_key>>)
    /\ endpoint_pc' = "responded"
    /\ UNCHANGED <<project_key, max_results, jira_service, tracker, matching_epics,
                   pipeline, applied>>

NextMatchEpics ==
    \/ ValidateProjectKey
    \/ FindMatchingEpics
    \/ FallbackToAllEpics

SpecMatchEpics == InitMatchEpics /\ [][NextMatchEpics]_vars

GetEpicsCalls == SelectSeq(calls, LAMBDA c : c[1] = "get_epics")
MatchingDone ==
    endpoint_pc \in {"fallback", "responded"} /\ matching_epics # NoResult

C21_ConfirmGate ==
    [][pc = "confirm" =>
          \/ /\ pc' = "list_epics"
             /\ trail' \in { {"answered_default"}, {"answered_yes"},
                             {"answered_confirm"} }
             /\ UNCHANGED <<created, log, processed_successfully_texts>>
          \/ /\ pc' = "loop"
             /\ processed_successfully_texts'
                    = Append(processed_successfully_texts, NoneText)
             /\ log' = log \cup {<<idx, "declined">>}
             /\ EventsOf(idx)' = {"declined"}
             /\ trail' = {}
             /\ UNCHANGED <<created, all_committed_entries_text, pendingFile,
                            committedFile, committedExists>>
          \/ /\ pc' = "aborted"
             /\ ~stdin_open'
             /\ UNCHANGED <<created, log, processed_successfully_texts>>]_vars

C21_Witness ==
    /\ pc = "list_epics"
    /\ idx = 2
    /\ trail = {"answered_default"}
    /\ <<1, "declined">> \in log


\* the step of the entry lifecycle a position of process_single_entry belongs
\* to: 1 Confirming, 2 EpicResolving, 3 DuplicateChecking, 4 Creating,
\* 5 Transitioning; 0 outside an entry
Stage(p) ==
    CASE p = "confirm" -> 1
      [] p \in {"list_epics", "epic_choice", "no_epics_prompt", "epic_name",
                "epic_desc", "list_versions", "version_select", "version_manual",
                "create_epic", "epic_fail_prompt"} -> 2
      [] p \in {"list_issues", "dup_prompt", "dup_fail_prompt"} -> 3
      [] p = "create" -> 4
      [] p = "transition" -> 5
      [] OTHER -> 0

\* C22: order of the steps of an entry. Inside an entry every step stays in
\* its lifecycle step or moves to a later one, or ends the entry or the run;
\* an entry starts at Confirming, from the loop, when the previous entry has
\* its outcome; the issues of an epic are listed only with an epic selected,
\* and Creating is entered from DuplicateChecking (check passed, or the
\* operator said yes) or, with no epic, from EpicResolving; the tracker
\* creates an issue only in the one step that leaves Creating, and
\* Transitioning is entered only by that step, with the key it returned.
C22_StepOrder ==
    [][/\ Stage(pc) > 0 =>
              \/ Stage(pc') >= Stage(pc)
              \/ pc' \in {"loop", "aborted"}
       /\ (Stage(pc') > 0 /\ Stage(pc) = 0) =>
              /\ pc = "loop" /\ pc' = "confirm"
              /\ idx' = idx + 1
              /\ Len(processed_successfully_texts) = idx
       /\ idx' # idx => (pc = "loop" \/ pc' = "start")
       /\ (Stage(pc') = 3 /\ Stage(pc) # 3) =>
              /\ Stage(pc) = 2 /\ pc' = "list_issues"
              /\ selected_epic_key' # "None"
       /\ (Stage(pc') = 4 /\ Stage(pc) # 4) =>
              \/ /\ Stage(pc) = 2
                 /\ selected_epic_key' = "None"
              \/ /\ pc = "list_issues"
                 /\ "dup_prompt" \notin trail'
              \/ /\ pc = "dup_prompt"
                 /\ "dup_yes" \in trail'
              \/ /\ pc = "dup_fail_prompt"
                 /\ "dupfail_yes" \in trail'
       /\ Stage(pc) = 4 => Stage(pc') # 4
       /\ created' # created =>
              /\ pc = "create" /\ pc' = "transition"
              /\ new_issue_key' # "None"
       /\ Stage(pc') = 5 => (pc = "create" /\ created' # created)
       /\ Stage(pc) = 5 =>
              /\ pc' = "loop"
              /\ Len(processed_successfully_texts') = idx]_vars

C22_Witness ==
    /\ pc = "transition"
    /\ idx = 2
    /\ selected_epic_key # "None"
    /\ "dup_yes" \in trail
    /\ <<1, "transition">> \in log


\* C23: a retained entry is reattempted on the next run. When a run has
\* rewritten the pending log, the entry blocks that the next run will extract
\* from the file (template set aside, split, blank pieces dropped) are the
\* entries this run retained, in the same number and order.
C23_RetainedReattempted ==
    PendingRewritten => BlocksOf(pendingFile) = Remaining


\* C24: the template block is invariant across rewrites. In every run, once
\* the pending log has been read, the template block the partition set aside
\* is byte for byte the one it sets aside in the log as it was before the
\* first run, also when no file operation ever failed.
C24_TemplateInvariant ==
    (pc # "start" /\ faults = 0) =>
        template_section = TemplatePartition(origPending).template_section


\* C25: the run after the placeholder. A run that starts on a pending log
\* ending with the placeholder comment (the previous run committed every
\* entry) finds no entry: once the log is read the run is at its exit with no
\* entry text, no event, and the pending log as it found it.
C25_PlaceholderIsNoEntry ==
    (run > 1 /\ pc # "start" /\ EndsWith(preRunPending, PlaceholderComment)) =>
        /\ pending_entry_texts = <<>>
        /\ pc = "exit"
        /\ log = {}
        /\ pendingFile = preRunPending


\* C26: outcome of the Epic Resolver. An epic becomes the selected one only
\* at the selection prompt, and then it is the listed epic at the number the
\* operator typed, a number from 1 to the length of the list, or after
\* create_jira_epic returned a key, under the non-empty name the operator
\* gave; a step that asks the selection again selects nothing;
\* create_jira_epic is never reached with an empty name; and past the
\* resolver the selection is none, a listed epic or the new epic.
C26_EpicResolverOutcome ==
    [][/\ pc \in {"epic_desc", "list_versions", "version_select", "version_manual",
                  "create_epic"} => new_epic_name # ""
       /\ (selected_epic_key' # selected_epic_key /\ selected_epic_key' # "None") =>
              \/ /\ pc = "epic_choice"
                 /\ \E k \in 1..Len(epics) :
                        /\ trail' \cap ChoiceEvents = {ChoiceEvent(k)}
                        /\ selected_epic_key' = epics[k].key
                        /\ selected_epic_name' = epics[k].summary
              \/ /\ pc = "create_epic"
                 /\ selected_epic_key' = "EPIC-NEW"
                 /\ selected_epic_name' = new_epic_name
                 /\ trail' \cap ChoiceEvents = {}
       /\ (pc = "epic_choice" /\ pc' = "epic_choice") =>
              UNCHANGED <<selected_epic_key, selected_epic_name, trail, created>>
       /\ Stage(pc') \in 3..5 =>
              \/ selected_epic_key' = "None" /\ selected_epic_name' = "N/A"
              \/ selected_epic_key' = "EPIC-NEW" /\ selected_epic_name' # ""
              \/ \E l \in EpicLists : \E k \in 1..Len(l) :
                     /\ selected_epic_key' = l[k].key
                     /\ selected_epic_name' = l[k].summary]_vars

C26_Witness ==
    /\ pc = "create"
    /\ idx = 2
    /\ selected_epic_key = "EPIC-1"
    /\ "choice_1" \in trail
    /\ \E t \in DOMAIN created : created[t] > 0


\* C27: issue type. When create_jira_issue has returned a key, the issue type
\* the tracker was given is the type written in the entry's committed record:
\* Bug for an entry whose Type is bug, Story otherwise.
C27_IssueTypeMatchesRecord ==
    pc = "transition" =>
        /\ CreatedAs(IssueType(EntryData)) \in trail
        /\ Contains(CommittedEntryStr(EntryData, selected_epic_name, selected_epic_key,
                                      new_issue_key, "Open"),
                    <<"### ">> \o IssueType(EntryData))


\* ------------------------------------------- functions looked at on their own
\* the longest list of transitions Jira offers
MaxTransitions == 2

TransitionNames == {NameOpen, NameDone, NameDONE, NameUndone, NameDo}
TransitionIds == <<"11", "21", "31", "41">>

\* the lists of up to MaxTransitions transitions, ids in the order of the list
OfferedTransitions ==
    UNION { { [i \in 1..n |-> [id |-> TransitionIds[i], name |-> names[i]]] :
              names \in [1..n -> TransitionNames] } : n \in 0..MaxTransitions }

\* a function has not been applied yet
NoOut == [applied |-> FALSE]

\* an entry that has been created and is about to be transitioned
SampleEntry == parse_pending_entry(<<"S", "a", "n">>)

\* transition_jira_issue and the status taken from its result:
\* listed: connecting and client.transitions succeed; executes:
\* client.transition_issue, if called, returns
TransitionCalls ==
    { [f |-> "transition_jira_issue",
       in |-> [listed |-> l, transitions |-> ts, executes |-> e],
       out |-> NoOut] :
      l \in BOOLEAN, ts \in OfferedTransitions, e \in BOOLEAN }

\* process_single_entry, lines 335-356, with JiraConnector.transition_jira_issue
ApplyTransition ==
    /\ applied.f = "transition_jira_issue"
    /\ applied.out = NoOut
    /\ LET in == applied.in
           transition_success ==
               transition_jira_issue(in.listed, in.transitions, in.executes)
           status == current_story_status_for_changelog(transition_success)
       IN  applied' = [applied EXCEPT !.out =
               [applied |-> TRUE,
                returned |-> transition_success,
                executed |-> transitions_executed(in.listed, in.transitions),
                status |-> status,
                record |-> CommittedEntryStr(SampleEntry, "N/A", "None", "K-1", status)]]
    /\ UNCHANGED <<pipeline, endpoint>>

\* the longest entry block handed to the parser
MaxBlockLen == 4

RECURSIVE TextsUpTo(_, _)
\* the texts of at most n tokens
TextsUpTo(tokens, n) ==
    IF n = 0 THEN {<<>>}
    ELSE LET shorter == TextsUpTo(tokens, n - 1)
         IN  shorter \cup {Append(t, w) : t \in shorter, w \in tokens}

\* main, line 477: the blocks are stripped and not empty
EntryBlocks ==
    { t \in TextsUpTo({"S", "T", "a", "bug", "n"}, MaxBlockLen) :
        t # <<>> /\ Strip(t) = t }

ParseCalls ==
    { [f |-> "parse_pending_entry", in |-> t, out |-> NoOut] : t \in EntryBlocks }

\* parse_pending_entry, lines 78-120
ApplyParse ==
    /\ applied.f = "parse_pending_entry"
    /\ applied.out = NoOut
    /\ applied' = [applied EXCEPT !.out =
           [applied |-> TRUE, data |-> parse_pending_entry(applied.in)]]
    /\ UNCHANGED <<pipeline, endpoint>>

\* the longest pending log handed to the partition
MaxFileLen == 6

\* main, lines 446-447: the text read from the pending log
PendingTexts == TextsUpTo({"M", "n", "x", "-"}, MaxFileLen)

PartitionCalls ==
    { [f |-> "TemplatePartition", in |-> t, out |-> NoOut] : t \in PendingTexts }

\* main, lines 449-469
ApplyPartition ==
    /\ applied.f = "TemplatePartition"
    /\ applied.out = NoOut
    /\ applied' = [applied EXCEPT !.out =
           [applied |-> TRUE, parts |-> TemplatePartition(applied.in)]]
    /\ UNCHANGED <<pipeline, endpoint>>

FunctionCalls == TransitionCalls \cup ParseCalls \cup PartitionCalls

InitFunctions ==
    /\ PipelineAtRest
    /\ EndpointIdle
    /\ applied \in FunctionCalls

NextFunctions ==
    \/ ApplyTransition
    \/ ApplyParse
    \/ ApplyPartition

SpecFunctions == InitFunctions /\ [][NextFunctions]_vars

\* the positions of the offered transitions whose name contains the target
\* status, case ignored
MatchingPositions(transitions) ==
    { i \in 1..Len(transitions) :
        Contains(LowerText(transitions[i].name), LowerText(NameDone)) }

\* C28: transition_jira_issue executes at most one transition, the first
\* offered one whose name contains the target status ignoring case; it
\* returns true exactly when such a transition was found and executed
\* without error; the record shows "Done" exactly when it returned true and
\* "Open" otherwise.
C28_FirstMatchingTransition ==
    (applied.f = "transition_jira_issue" /\ applied.out # NoOut) =>
        LET in == applied.in
            out == applied.out
            M == MatchingPositions(in.transitions)
            found == in.listed /\ M # {}
        IN  /\ Len(out.executed) <= 1
            /\ (out.executed # <<>>) <=> found
            /\ found =>
                   out.executed[1] =
                       in.transitions[CHOOSE i \in M : \A j \in M : i <= j].id
            /\ out.returned <=> (found /\ in.executes)
            /\ out.status = (IF out.returned THEN "Done" ELSE "Open")
            /\ Contains(out.record, <<"(Status: ", out.status, ")">>)

\* two transitions match, the second one in capitals, and the first is executed
C28_Witness ==
    /\ applied.f = "transition_jira_issue"
    /\ applied.out # NoOut
    /\ applied.in.listed
    /\ Len(applied.in.transitions) = 2
    /\ applied.in.transitions[1].name = NameUndone
    /\ applied.in.transitions[2].name = NameDONE
    /\ applied.out.executed = <<"11">>
    /\ applied.out.returned
    /\ applied.out.status = "Done"


\* what follows the leftmost title label on the label's own line, stripped
OwnLineTitle(text) ==
    LET i == Find(text, <<"S">>, 1)
    IN  Strip(SubSeq(text, i + 1, LineEnd(text, i + 1)))

\* C29: the parser takes the title only from the text after the title label
\* on the label's own line: a label followed by nothing on its line gives the
\* empty record, and a following line or another field is never the title.
C29_TitleFromOwnLine ==
    (applied.f = "parse_pending_entry" /\ applied.out # NoOut
     /\ Has(applied.in, "S")) =>
        /\ OwnLineTitle(applied.in) = <<>> => applied.out.data = EmptyDict
        /\ applied.out.data # EmptyDict =>
               applied.out.data["draft_summary"] = OwnLineTitle(applied.in)


\* the length of the template the three cases describe for the text T
TemplateLength(T) ==
    LET m == Find(T, TEMPLATE_END_MARKER, 1)
        after == m + Len(TEMPLATE_END_MARKER)
        s == Find(T, ENTRY_SEPARATOR, after)
    IN  IF m = 0 THEN 0
        ELSE IF s # 0 THEN s + Len(ENTRY_SEPARATOR) - 1
        ELSE CHOOSE k \in (after - 1)..Len(T) :
                 /\ \A i \in after..k : T[i] = "n"
                 /\ k < Len(T) => T[k + 1] # "n"

\* C30: Template Partition splits the pending-log text T into (template,
\* entry content) with template + entry content = T: no end marker gives an
\* empty template; a marker followed by a separator gives the template up to
\* and including the leftmost separator after the leftmost marker; a marker
\* with no later separator gives the template up to the end of the marker
\* plus the newlines immediately following it. Nothing is dropped or
\* duplicated.
C30_PartitionCoversText ==
    (applied.f = "TemplatePartition" /\ applied.out # NoOut) =>
        LET T == applied.in
            parts == applied.out.parts
        IN  /\ parts.template_section \o parts.processed_content = T
            /\ parts.template_section = SubSeq(T, 1, TemplateLength(T))
            /\ parts.processed_content = SubSeq(T, TemplateLength(T) + 1, Len(T))

====
